---- MODULE Spec2Model ----
(***************************************************************************)
(* Model of Poco::Net::HTTPClientSession (Net/src/HTTPClientSession.cpp).  *)
(*                                                                         *)
(* The session is a record of its data members; every member function is   *)
(* an operator from a session record (and the inputs the environment       *)
(* decides: the outcome of a connect, of a transport write, of a header    *)
(* read) to the session record after the call together with the exception  *)
(* that leaves the call ("none" when it returns).  An action applies one   *)
(* public operation to the current session.                                *)
(*                                                                         *)
(* The base class HTTPSession (socket, recorded network exception,         *)
(* keep-alive flag) and the stream classes are not part of the file; they  *)
(* are modelled as the Transport capability the specification describes.   *)
(***************************************************************************)
EXTENDS Integers, Sequences, FiniteSets, TLC

VARIABLES
    _host,               \* target host
    _port,               \* target port
    _proxyConfig,        \* [host, port, username, password, nonProxyHosts]
    _keepAliveTimeout,   \* Poco::Timespan
    _lastRequest,        \* Poco::Timestamp of the last request sent
    _reconnect,          \* the next failing write may reconnect and retry
    _mustReconnect,      \* forced reconnect on the next sendRequest
    _expectResponseBody, \* false after a HEAD request
    _responseReceived,   \* peekResponse has read a final response head
    _pRequestStream,     \* output stream handle
    _pResponseStream,    \* input stream handle
    _keepAlive,          \* HTTPSession::getKeepAlive()
    _pException,         \* HTTPSession::networkException(): "none" or "net"
    _connected,          \* HTTPSession::connected()
    now,                 \* the system clock read by Poco::Timestamp
    response,            \* the head peekResponse left in the caller's response object
    cycle,               \* history: the write calls since the last sendRequest
    ev                   \* history: the last operation, what it did to the
                         \* transport and to the caller's request and response

vars == << _host, _port, _proxyConfig, _keepAliveTimeout, _lastRequest,
           _reconnect, _mustReconnect, _expectResponseBody, _responseReceived,
           _pRequestStream, _pResponseStream, _keepAlive, _pException,
           _connected, now, response, cycle, ev >>

-----------------------------------------------------------------------------
(* Bounds *)

MaxTime == 1
MaxContinue == 1
MaxStamp == 3
MaxRewrites == 2

(* Program constants, in the model's units *)

HTTP_PORT == 80
DEFAULT_KEEP_ALIVE_TIMEOUT == 1
HTTP_CONTINUE == 100
HTTP_OK == 200
HTTP_NO_CONTENT == 204
HTTP_NOT_MODIFIED == 304
UNKNOWN_CONTENT_LENGTH == -1

\* a Content-Length header whose value is not a number
MALFORMED_CONTENT_LENGTH == -2

-----------------------------------------------------------------------------
(* Input domains *)

Hosts == {"", "a", "B"}
Ports == {HTTP_PORT, 8000}
ProxyHosts == {"", "p"}
ProxyPorts == {HTTP_PORT, 3128}
Usernames == {"", "u"}
Passwords == {"", "pw"}
NonProxyPatterns == {"", "b"}
Timeouts == {DEFAULT_KEEP_ALIVE_TIMEOUT, 2}

ProxyConfigs ==
    [host : ProxyHosts, port : ProxyPorts, username : Usernames,
     password : Passwords, nonProxyHosts : NonProxyPatterns]

\* ProxyConfig::ProxyConfig(): everything empty, port HTTP_PORT
EmptyProxyConfig ==
    [host |-> "", port |-> HTTP_PORT, username |-> "", password |-> "",
     nonProxyHosts |-> ""]

\* outcome of one transport write / header read: it succeeds, fails with an
\* IOException, or fails with another Poco::Exception (a timeout)
Outcomes == {"ok", "io", "other"}

\* what the environment does to one HTTPClientSession::write call: the outcome
\* of the first transport write, of the reconnect, of the retried write
WriteScripts ==
    { [o1 |-> "ok",    c |-> TRUE,  o2 |-> "ok"],
      [o1 |-> "other", c |-> TRUE,  o2 |-> "ok"],
      [o1 |-> "io",    c |-> FALSE, o2 |-> "ok"],
      [o1 |-> "io",    c |-> TRUE,  o2 |-> "ok"],
      [o1 |-> "io",    c |-> TRUE,  o2 |-> "io"] }

NoWrite == [o1 |-> "none", c |-> TRUE, o2 |-> "ok"]

Buffers == { <<"b1", "b2">> }

NullStream == [kind |-> "null", len |-> 0]

-----------------------------------------------------------------------------
(* Transport (HTTPSession) *)

Ret(s, t) == [s |-> s, thrown |-> t]

SocketAddress(host, port) == [host |-> host, port |-> port]

NoAddress == SocketAddress("", 0)

\* one thing done to the transport: err is "none" when it succeeded
Event(e, err, buf, addr) == [e |-> e, err |-> err, buf |-> buf, addr |-> addr]

\* HTTPSession::close()
close(s) ==
    [s EXCEPT !._connected = FALSE,
              !.log = Append(@, Event("close", "none", <<>>, NoAddress))]

\* HTTPSession::connect(addr): throws a NetException when it fails
connect(s, addr, ok) ==
    IF ok
    THEN Ret([s EXCEPT !._connected = TRUE,
                       !.log = Append(@, Event("connect", "none", <<>>, addr))],
             "none")
    ELSE Ret([s EXCEPT !.log = Append(@, Event("connect", "io", <<>>, addr))],
             "io")

\* HTTPSession::setException(exc): keeps the first exception
setException(s, kind) ==
    IF s._pException = "none"
    THEN [s EXCEPT !._pException = "net", !.cycle.excRaised = FALSE]
    ELSE s

\* HTTPSession::clearException()
clearException(s) ==
    [s EXCEPT !._pException = "none", !.cycle.excRaised = FALSE]

\* HTTPSession::write(buffer, length): sends on the socket; a failure is
\* recorded and rethrown.  Nothing can be sent on a closed socket.
HTTPSession_write(s, buf, o) ==
    LET kind == IF ~s._connected /\ o = "ok" THEN "io" ELSE o
        s1 == [s EXCEPT !.log = Append(@, Event("write", IF kind = "ok" THEN "none" ELSE kind, buf, NoAddress))]
    IN  IF kind = "ok" THEN Ret(s1, "none")
        ELSE Ret(setException(s1, kind), kind)

-----------------------------------------------------------------------------
(* HTTPClientSession: private helpers *)

\* RegularExpression::match(subject, pattern, RE_CASELESS | RE_ANCHORED) for
\* the literal patterns of NonProxyPatterns
Lower(str) == IF str = "B" THEN "b" ELSE str

RegularExpression_match(subject, pattern) == Lower(subject) = Lower(pattern)

bypassProxy_caseSensitive(s) ==
    IF s._proxyConfig.nonProxyHosts # ""
    THEN s._host = s._proxyConfig.nonProxyHosts
    ELSE FALSE

bypassProxy(s) ==
    IF s._proxyConfig.nonProxyHosts # ""
    THEN RegularExpression_match(s._host, s._proxyConfig.nonProxyHosts)
    ELSE FALSE

reconnect(s, ok) ==
    IF s._proxyConfig.host = "" \/ bypassProxy(s)
    THEN connect(s, SocketAddress(s._host, s._port), ok)
    ELSE connect(s, SocketAddress(s._proxyConfig.host, s._proxyConfig.port), ok)

mustReconnect_strict(s) ==
    IF ~s._mustReconnect
    THEN s._keepAliveTimeout < s.now - s._lastRequest
    ELSE TRUE

mustReconnect(s) ==
    IF ~s._mustReconnect
    THEN s._keepAliveTimeout <= s.now - s._lastRequest
    ELSE TRUE

-----------------------------------------------------------------------------
(* HTTPClientSession::write *)

\* the bytes the retry sends: the same buffer and length
retryBuffer_partial(buf) == Tail(buf)

retryBuffer(buf) == buf

\* history of a request cycle: the keep-alive setting of its request and
\* whether its method was HEAD, whether write was called in it, whether a write of it succeeded,
\* and whether the recorded network exception has been raised to the caller
NewCycle(keepAlive, method) ==
    [any |-> FALSE, wroteOk |-> FALSE, keepAlive |-> keepAlive,
     head |-> (method = "HEAD"), excRaised |-> FALSE]

\* history of one write call: was it the first of its request cycle, had a
\* write of the cycle succeeded before it, what it did to the transport
WriteCall(s0, r, buf) ==
    [first |-> ~s0.cycle.any, priorOk |-> s0.cycle.wroteOk,
     keepAlive |-> s0.cycle.keepAlive, buf |-> buf,
     events |-> SubSeq(r.s.log, Len(s0.log) + 1, Len(r.s.log)),
     thrown |-> r.thrown]

noteWrite(s0, r, buf) ==
    Ret([r.s EXCEPT
            !.wcalls = Append(@, WriteCall(s0, r, buf)),
            !.cycle = [@ EXCEPT !.any = TRUE,
                                !.wroteOk = @ \/ r.thrown = "none"]],
        r.thrown)

\* after a write that succeeded (lines 406 and 417)
afterWrite_clearException(s) == [clearException(s) EXCEPT !._reconnect = FALSE]

afterWrite(s) == [s EXCEPT !._reconnect = FALSE]

\* after a retried write that succeeded (lines 416-417)
afterRetry(s) == afterWrite(clearException(s))

\* catch (IOException&): close, reconnect, write again (lines 411-419)
retryWrite(s, buf, w) ==
    LET rc == reconnect(close(s), w.c)
    IN  IF rc.thrown # "none" THEN rc
        ELSE LET r2 == HTTPSession_write(rc.s, retryBuffer(buf), w.o2)
             IN  IF r2.thrown # "none" THEN r2
                 ELSE Ret(afterRetry(r2.s), "none")

\* line 411, in catch (IOException&)
mayRetry(s, thrown) == thrown = "io" /\ s._reconnect

write(s, buf, w) ==
    LET r1 == HTTPSession_write(s, buf, w.o1)
    IN  IF r1.thrown = "none"
        THEN noteWrite(s, Ret(afterWrite(r1.s), "none"), buf)
        ELSE IF mayRetry(r1.s, r1.thrown)
        THEN noteWrite(s, retryWrite(r1.s, buf, w), buf)
        ELSE noteWrite(s, r1, buf)

Min(a, b) == IF a < b THEN a ELSE b

\* HTTPFixedLengthStreamBuf::writeToDevice: of the bytes the stream is to
\* pass on, only those that fit its length; the other streams pass all
fitting(stream, buf) ==
    IF stream.kind = "fixed"
    THEN SubSeq(buf, 1, Min(Len(buf), stream.len - stream.count))
    ELSE buf

\* a stream hands its buffer to the session; the stream swallows what
\* write throws (the failure stays recorded in the session).  A fixed-length
\* stream counts the bytes the session has taken, and hands over nothing
\* once its length is reached.
streamWrite(s, buf, w) ==
    LET stream == s._pRequestStream
        b == fitting(stream, buf)
    IN  IF w.o1 = "none" \/ (stream.kind = "fixed" /\ b = <<>>) THEN s
        ELSE LET r == write(s, b, w)
             IN  IF stream.kind = "fixed" /\ r.thrown = "none"
                 THEN [r.s EXCEPT !._pRequestStream.count = @ + Len(b)]
                 ELSE r.s

disposeRequestStream_keep(s) == s

\* _pRequestStream = 0.  The bytes the stream still holds reach the session
\* as one more write of the stream (the step Write) before the handle goes.
disposeRequestStream(s) == [s EXCEPT !._pRequestStream = NullStream]

-----------------------------------------------------------------------------
(* Requests and responses *)

\* HTTPRequest objects a caller builds
FreshRequests ==
    { [method |-> m, chunked |-> ch, contentLength |-> cl, hostHdr |-> <<>>,
       keepAlive |-> TRUE, uri |-> <<"/path">>, proxyAuth |-> FALSE]
      : m \in {"GET", "HEAD", "POST"}, ch \in {FALSE}, cl \in {UNKNOWN_CONTENT_LENGTH} }
    \cup
    { [method |-> "POST", chunked |-> TRUE, contentLength |-> UNKNOWN_CONTENT_LENGTH,
       hostHdr |-> <<>>, keepAlive |-> TRUE, uri |-> <<"/path">>, proxyAuth |-> FALSE],
      [method |-> "POST", chunked |-> FALSE, contentLength |-> 2,
       hostHdr |-> <<"h">>, keepAlive |-> TRUE, uri |-> <<"/path">>, proxyAuth |-> FALSE],
      [method |-> "POST", chunked |-> FALSE, contentLength |-> MALFORMED_CONTENT_LENGTH,
       hostHdr |-> <<"h">>, keepAlive |-> TRUE, uri |-> <<"/path">>, proxyAuth |-> FALSE] }

NoRequest ==
    [method |-> "", chunked |-> FALSE, contentLength |-> UNKNOWN_CONTENT_LENGTH,
     hostHdr |-> <<>>, keepAlive |-> TRUE, uri |-> <<>>, proxyAuth |-> FALSE]

\* HTTPResponse::getReasonForStatus
ReasonPhrase(status) ==
    CASE status = HTTP_CONTINUE -> "Continue"
      [] status = 101 -> "Switching Protocols"
      [] status = HTTP_OK -> "OK"
      [] status = HTTP_NO_CONTENT -> "No Content"
      [] status = HTTP_NOT_MODIFIED -> "Not Modified"
      [] status = 407 -> "Proxy Authentication Required"
      [] OTHER -> "Unknown"

\* HTTPResponse::HTTPResponse() and HTTPResponse::clear()
FreshResponse ==
    [status |-> HTTP_OK, reason |-> ReasonPhrase(HTTP_OK), keepAlive |-> FALSE,
     chunked |-> FALSE, contentLength |-> UNKNOWN_CONTENT_LENGTH]

ResponseHead(status, ka, ch, cl) ==
    [status |-> status, reason |-> ReasonPhrase(status), keepAlive |-> ka,
     chunked |-> ch, contentLength |-> cl]

ContinueHead == ResponseHead(HTTP_CONTINUE, TRUE, FALSE, UNKNOWN_CONTENT_LENGTH)

\* response heads a peer sends after the preliminary ones
FinalHeads ==
    { ResponseHead(101, TRUE, FALSE, UNKNOWN_CONTENT_LENGTH),
      ResponseHead(HTTP_OK, TRUE, TRUE, 500),
      ResponseHead(HTTP_OK, FALSE, FALSE, 500),
      ResponseHead(HTTP_NO_CONTENT, TRUE, FALSE, 500),
      ResponseHead(HTTP_NOT_MODIFIED, TRUE, TRUE, UNKNOWN_CONTENT_LENGTH) }

\* what the environment does to one header read: a head arrives, the
\* transport fails ("io", recorded by the session), or the head is malformed
\* ("proto", reported by HTTPResponse::read only)
ReadOutcome(fail, head) == [fail |-> fail, head |-> head]

FinalReads ==
    { ReadOutcome("none", h) : h \in FinalHeads }
    \cup { ReadOutcome(f, FreshResponse) : f \in {"io", "proto"} }

RECURSIVE Continues(_)
Continues(n) ==
    IF n = 0 THEN <<>> ELSE <<ReadOutcome("none", ContinueHead)>> \o Continues(n - 1)

\* what a peer sends: preliminary heads, then a final head or a failure
ReadScripts ==
    { Continues(n) \o <<f>> : n \in 0..MaxContinue, f \in FinalReads }

\* what a proxy answers to CONNECT: it accepts, or refuses with a reason of
\* its own, or the read fails
ProxyReads ==
    { ReadOutcome("none", ResponseHead(HTTP_OK, TRUE, FALSE, UNKNOWN_CONTENT_LENGTH)),
      ReadOutcome("none", [ResponseHead(407, TRUE, FALSE, 0) EXCEPT !.reason = "Denied"]),
      ReadOutcome("io", FreshResponse) }

ProxyReadScripts ==
    { Continues(n) \o <<f>> : n \in 0..MaxContinue, f \in ProxyReads }

-----------------------------------------------------------------------------
(* HTTPClientSession::sendRequest *)

\* NumberFormatter::append(str, n): the decimal digits of n
Digit(d) == <<"0", "1", "2", "3", "4", "5", "6", "7", "8", "9">>[d + 1]

RECURSIVE NumberFormatter_append(_, _)
NumberFormatter_append(str, n) ==
    IF n < 10 THEN Append(str, Digit(n))
    ELSE Append(NumberFormatter_append(str, n \div 10), Digit(n % 10))

proxyRequestPrefix(s) ==
    NumberFormatter_append(<<"http://", s._host, ":">>, s._port)

proxyAuthenticateImpl(s, req) ==
    IF s._proxyConfig.username # "" THEN [req EXCEPT !.proxyAuth = TRUE] ELSE req

proxyAuthenticate(s, req) == proxyAuthenticateImpl(s, req)

\* HTTPRequest::write(ostr): the serialized header block
serialize(req) ==
    <<req.method>> \o req.uri \o req.hostHdr
        \o (IF req.keepAlive THEN <<>> ELSE <<"close">>)
        \o (IF req.chunked THEN <<"chunked">> ELSE <<>>)
        \o (IF req.contentLength # UNKNOWN_CONTENT_LENGTH
            THEN <<"length">> ELSE <<>>)
        \o (IF req.proxyAuth THEN <<"proxy-auth">> ELSE <<>>)

\* lines 233-236: drop the stream handles, clear the recorded exception
sendRequest_begin(s, req) ==
    [clearException(disposeRequestStream(s)) EXCEPT
        !._pResponseStream = NullStream,
        !._responseReceived = FALSE,
        !.cycle = NewCycle(s._keepAlive, req.method)]

\* line 240
mustCloseFirst_connectedOnly(s, keepAlive) ==
    (s._connected /\ ~keepAlive) /\ s._host # ""

mustCloseFirst(s, keepAlive) ==
    ((s._connected /\ ~keepAlive) \/ mustReconnect(s)) /\ s._host # ""

\* lines 240-244
initialClose(s, keepAlive) ==
    IF mustCloseFirst(s, keepAlive)
    THEN [close(s) EXCEPT !._mustReconnect = FALSE]
    ELSE s

\* lines 248-251: the if statement governs the logging statement only, so
\* reconnect() is called whether or not the session is connected
connectForRequest(s, ok) == reconnect(s, ok)

\* lines 252-262
prepareRequest(s, req, keepAlive) ==
    LET r1 == IF ~keepAlive THEN [req EXCEPT !.keepAlive = FALSE] ELSE req
        r2 == IF r1.hostHdr = <<>> /\ s._host # ""
              THEN [r1 EXCEPT !.hostHdr = <<s._host>>]
              ELSE r1
    IN  IF s._proxyConfig.host # "" /\ ~bypassProxy(s)
        THEN proxyAuthenticate(s, [r2 EXCEPT !.uri = proxyRequestPrefix(s) \o @])
        ELSE r2

\* a stream object over the session; a fixed-length stream has passed on
\* none of its len bytes yet
OutputStream(kind, len) == [kind |-> kind, len |-> len, count |-> 0]

\* lines 266-296: the output stream for the request
requestStream_bodyOnly(req) ==
    IF req.chunked THEN OutputStream("chunked", 0)
    ELSE IF req.contentLength # UNKNOWN_CONTENT_LENGTH
    THEN OutputStream("fixed", req.contentLength)
    ELSE IF req.method \notin {"PUT", "POST", "PATCH"}
    THEN OutputStream("fixed", Len(serialize(req)))
    ELSE OutputStream("raw", 0)

requestStream(req) ==
    IF req.chunked THEN OutputStream("chunked", 0)
    ELSE IF req.contentLength # UNKNOWN_CONTENT_LENGTH
    THEN OutputStream("fixed", req.contentLength + Len(serialize(req)))
    ELSE IF req.method \notin {"PUT", "POST", "PATCH"}
    THEN OutputStream("fixed", Len(serialize(req)))
    ELSE OutputStream("raw", 0)

\* lines 278-280: getContentLength64() throws a SyntaxException for a
\* Content-Length that is not a number, before the stream is constructed
constructionFails(req) ==
    ~req.chunked /\ req.contentLength = MALFORMED_CONTENT_LENGTH

\* catch (Exception&) of lines 301-305
sendRequest_catch_rethrowOnly(s) == s

sendRequest_catch(s) == close(s)

\* The head of a chunked request goes through a header stream that is flushed
\* before sendRequest returns (lines 268-269); the other streams buffer the
\* head, which reaches the session with the first write of the stream.
\* in : [c: the connect succeeds, h: what writing the chunked head does]
sendRequest(s0, req, in) ==
    LET keepAlive == s0._keepAlive
        s2 == initialClose(sendRequest_begin(s0, req), keepAlive)
        rc == connectForRequest(s2, in.c)
    IN  IF rc.thrown # "none"
        THEN [s |-> sendRequest_catch(rc.s), thrown |-> rc.thrown, req |-> req]
        ELSE LET rq == prepareRequest(rc.s, req, keepAlive)
                 s3 == [rc.s EXCEPT !._reconnect = keepAlive,
                                    !._expectResponseBody = (rq.method # "HEAD")]
                 s4 == [(IF rq.chunked THEN streamWrite(s3, serialize(rq), in.h)
                         ELSE s3) EXCEPT
                            !._pRequestStream = requestStream(rq)]
             IN  IF constructionFails(rq)
                 THEN [s |-> sendRequest_catch(s3), thrown |-> "syntax", req |-> rq]
                 ELSE [s |-> [s4 EXCEPT !._lastRequest = s4.now],
                       thrown |-> "none", req |-> rq]

-----------------------------------------------------------------------------
(* HTTPClientSession::flushRequest, receiveResponse, peekResponse, reset *)

\* networkException()->rethrow()
rethrow(s) ==
    Ret([s EXCEPT !.raised = TRUE, !.cycle.excRaised = TRUE], s._pException)

\* lines 309-313
flushRequest(s) ==
    LET s1 == disposeRequestStream(s)
    IN  IF s1._pException # "none" THEN rethrow(s1) ELSE Ret(s1, "none")

\* response.clear(); response.read(his): one head is read from the transport.
\* Nothing can be read from a closed socket; a transport failure is recorded
\* by the session (HTTPSession::receive).
statusLine(head) == NumberFormatter_append(<<>>, head.status) \o <<head.reason>>

readHead(s, o) ==
    LET fail == IF ~s._connected THEN "io" ELSE o.fail
        s1 == [s EXCEPT !.log = Append(@, Event("read", fail,
                                 IF fail = "none" THEN statusLine(o.head) ELSE <<>>,
                                 NoAddress))]
    IN  IF fail = "none"
        THEN [s |-> s1, thrown |-> "none", resp |-> o.head]
        ELSE [s |-> IF fail = "io" THEN setException(s1, "io") ELSE s1,
              thrown |-> "proto", resp |-> FreshResponse]

\* catch (Exception&) of lines 329-337 and 375-383
readFailed(s, thrown) ==
    LET c == close(s)
    IN  IF c._pException # "none" THEN rethrow(c) ELSE Ret(c, thrown)

\* line 339: the loop reads another head
readAgain_never(resp) == FALSE

readAgain(resp) == resp.status = HTTP_CONTINUE

\* lines 321-339; a peer that sends nothing more makes the read time out
RECURSIVE readLoop(_, _)
readLoop(s, reads) ==
    LET r == readHead(s, IF reads = <<>> THEN ReadOutcome("io", FreshResponse)
                         ELSE Head(reads))
    IN  IF r.thrown # "none"
        THEN LET f == readFailed(r.s, r.thrown)
             IN  [s |-> f.s, thrown |-> f.thrown, resp |-> r.resp]
        ELSE IF readAgain(r.resp) THEN readLoop(r.s, Tail(reads))
        ELSE r

\* lines 344-355: the input stream for the response
responseStream_ignoreHead(expectResponseBody, resp) ==
    IF resp.status < 200 \/ resp.status = HTTP_NO_CONTENT
       \/ resp.status = HTTP_NOT_MODIFIED
    THEN [kind |-> "fixed", len |-> 0]
    ELSE IF resp.chunked THEN [kind |-> "chunked", len |-> 0]
    ELSE IF resp.contentLength # UNKNOWN_CONTENT_LENGTH
    THEN [kind |-> "fixed", len |-> resp.contentLength]
    ELSE [kind |-> "raw", len |-> 0]

responseStream_lengthFirst(expectResponseBody, resp) ==
    IF ~expectResponseBody \/ resp.status < 200 \/ resp.status = HTTP_NO_CONTENT
       \/ resp.status = HTTP_NOT_MODIFIED
    THEN [kind |-> "fixed", len |-> 0]
    ELSE IF resp.contentLength # UNKNOWN_CONTENT_LENGTH
    THEN [kind |-> "fixed", len |-> resp.contentLength]
    ELSE IF resp.chunked THEN [kind |-> "chunked", len |-> 0]
    ELSE [kind |-> "raw", len |-> 0]

responseStream(expectResponseBody, resp) ==
    IF ~expectResponseBody \/ resp.status < 200 \/ resp.status = HTTP_NO_CONTENT
       \/ resp.status = HTTP_NOT_MODIFIED
    THEN [kind |-> "fixed", len |-> 0]
    ELSE IF resp.chunked THEN [kind |-> "chunked", len |-> 0]
    ELSE IF resp.contentLength # UNKNOWN_CONTENT_LENGTH
    THEN [kind |-> "fixed", len |-> resp.contentLength]
    ELSE [kind |-> "raw", len |-> 0]

\* line 319: no head has been read for this response yet
needsRead_always(s) == TRUE

needsRead(s) == ~s._responseReceived

\* reads : what the peer sends
receiveResponse(s0, resp, reads) ==
    LET f == flushRequest(s0)
    IN  IF f.thrown # "none"
        THEN [s |-> f.s, thrown |-> f.thrown, resp |-> resp]
        ELSE LET rd == IF needsRead(f.s) THEN readLoop(f.s, reads)
                       ELSE [s |-> f.s, thrown |-> "none", resp |-> resp]
             IN  IF rd.thrown # "none" THEN rd
                 ELSE [s |-> [rd.s EXCEPT
                                 !._mustReconnect = rd.s._keepAlive /\ ~rd.resp.keepAlive,
                                 !._pResponseStream =
                                     responseStream(rd.s._expectResponseBody, rd.resp)],
                       thrown |-> "none", resp |-> rd.resp]

\* line 384
peekReceived(resp) == resp.status # HTTP_CONTINUE

\* line 385
peekReturn_received(s) == s._responseReceived

peekReturn(s) == ~s._responseReceived

\* lines 361-386.  poco_assert throws an AssertionViolationException;
\* dereferencing a null stream handle throws a NullPointerException.
\* _pRequestStream->flush() writes what the stream holds, as Write does.
\* read : what the peer sends
peekResponse(s0, resp, read) ==
    IF s0._responseReceived
    THEN [s |-> s0, thrown |-> "assert", resp |-> resp, ret |-> "none"]
    ELSE IF s0._pRequestStream.kind = "null"
    THEN [s |-> s0, thrown |-> "null", resp |-> resp, ret |-> "none"]
    ELSE LET s1 == s0
         IN  IF s1._pException # "none"
             THEN [s |-> rethrow(s1).s, thrown |-> s1._pException,
                   resp |-> resp, ret |-> "none"]
             ELSE LET r == readHead(s1, read)
                  IN  IF r.thrown # "none"
                      THEN LET f == readFailed(r.s, r.thrown)
                           IN  [s |-> f.s, thrown |-> f.thrown, resp |-> r.resp,
                                ret |-> "none"]
                      ELSE LET s2 == [r.s EXCEPT
                                         !._responseReceived = peekReceived(r.resp)]
                           IN  [s |-> s2, thrown |-> "none", resp |-> r.resp,
                                ret |-> IF peekReturn(s2) THEN "true" ELSE "false"]

\* lines 389-392
reset(s) == close(s)

-----------------------------------------------------------------------------
(* HTTPClientSession: setters (lines 136-217) *)

setHost(s, host) ==
    IF ~s._connected THEN Ret([s EXCEPT !._host = host], "none")
    ELSE Ret(s, "state")

setPort(s, port) ==
    IF ~s._connected THEN Ret([s EXCEPT !._port = port], "none")
    ELSE Ret(s, "state")

setProxy(s, host, port) ==
    IF ~s._connected
    THEN Ret([s EXCEPT !._proxyConfig.host = host, !._proxyConfig.port = port], "none")
    ELSE Ret(s, "state")

setProxyHost(s, host) ==
    IF ~s._connected THEN Ret([s EXCEPT !._proxyConfig.host = host], "none")
    ELSE Ret(s, "state")

setProxyPort(s, port) ==
    IF ~s._connected THEN Ret([s EXCEPT !._proxyConfig.port = port], "none")
    ELSE Ret(s, "state")

setProxyCredentials(s, username, password) ==
    Ret([s EXCEPT !._proxyConfig.username = username,
                  !._proxyConfig.password = password], "none")

setProxyUsername(s, username) ==
    Ret([s EXCEPT !._proxyConfig.username = username], "none")

setProxyPassword(s, password) ==
    Ret([s EXCEPT !._proxyConfig.password = password], "none")

setProxyConfig(s, config) == Ret([s EXCEPT !._proxyConfig = config], "none")

setKeepAliveTimeout(s, timeout) ==
    Ret([s EXCEPT !._keepAliveTimeout = timeout], "none")

\* HTTPSession::setKeepAlive
setKeepAlive(s, keepAlive) == Ret([s EXCEPT !._keepAlive = keepAlive], "none")

-----------------------------------------------------------------------------
(* HTTPClientSession::proxyConnect, proxyTunnel *)

\* the session object a constructor leaves (lines 117-128), at time clock
HTTPClientSession(host, port, proxyConfig, clock) ==
    [_host |-> host, _port |-> port, _proxyConfig |-> proxyConfig,
     _keepAliveTimeout |-> DEFAULT_KEEP_ALIVE_TIMEOUT, _lastRequest |-> clock,
     _reconnect |-> FALSE, _mustReconnect |-> FALSE,
     _expectResponseBody |-> FALSE, _responseReceived |-> FALSE,
     _pRequestStream |-> NullStream, _pResponseStream |-> NullStream,
     _keepAlive |-> FALSE, _pException |-> "none", _connected |-> FALSE,
     now |-> clock, cycle |-> NewCycle(FALSE, ""),
     log |-> <<>>, wcalls |-> <<>>, raised |-> FALSE]

\* lines 482-489: CONNECT host:port, with the proxy credentials
proxyRequest(s) ==
    proxyAuthenticateImpl(s,
        [method |-> "CONNECT", chunked |-> FALSE,
         contentLength |-> UNKNOWN_CONTENT_LENGTH, hostHdr |-> <<s._host>>,
         keepAlive |-> TRUE,
         uri |-> NumberFormatter_append(<<s._host, ":">>, s._port),
         proxyAuth |-> FALSE])

\* line 493
proxyAccepted_any(resp) == TRUE

proxyAccepted(resp) == resp.status = HTTP_OK

\* HTTPSession::detachSocket(): the session gives its socket away
detachSocket(s) ==
    [s EXCEPT !._connected = FALSE,
              !.log = Append(@, Event("detach", "none", <<>>, NoAddress))]

\* HTTPSession::attachSocket(socket): the session adopts a socket that is
\* connected iff open
attachSocket(s, open) ==
    [s EXCEPT !._connected = open,
              !.log = Append(@, Event("attach", "none", <<>>, NoAddress))]

\* line 480, 490: the nested session, with no proxy of its own
proxySession(s) ==
    setKeepAlive(HTTPClientSession(s._proxyConfig.host, s._proxyConfig.port,
                                   EmptyProxyConfig, s.now), TRUE).s

\* what proxyConnect leaves: the nested session, what it throws, the reason
\* phrase its HTTPException carries, and whether the socket it returns is
\* connected
ProxyResult(nested, thrown, reason, open, req) ==
    [nested |-> nested, thrown |-> thrown, reason |-> reason, open |-> open,
     req |-> req]

\* lines 493-495, rr: what receiveResponse of the nested session gave
proxyConnect_answered(req, rr) ==
    IF rr.thrown # "none"
    THEN ProxyResult(rr.s, rr.thrown, "none", FALSE, req)
    ELSE IF ~proxyAccepted(rr.resp)
    THEN ProxyResult(rr.s, "http", rr.resp.reason, FALSE, req)
    ELSE ProxyResult(detachSocket(rr.s), "none", "none", rr.s._connected, req)

\* line 492, sr: what sendRequest of the nested session gave.  The request
\* stream passes the head to the nested session when receiveResponse drops
\* the stream handle.
proxyConnect_sent(in, sr) ==
    IF sr.thrown # "none"
    THEN ProxyResult(sr.s, sr.thrown, "none", FALSE, sr.req)
    ELSE proxyConnect_answered(sr.req,
             receiveResponse(streamWrite(sr.s, serialize(sr.req), in.w),
                             FreshResponse, in.reads))

\* lines 477-496
\* in : [c: the connect succeeds, w: what writing the head does,
\*       reads: what the proxy sends]
proxyConnect(s, in) ==
    proxyConnect_sent(in,
        sendRequest(proxySession(s), proxyRequest(s), [c |-> in.c, h |-> NoWrite]))

\* line 502, pc: what proxyConnect gave.  The log of the call is what the
\* nested session did to its transport, then what the calling session did
\* to its own.
proxyTunnel_attach(s, pc) ==
    IF pc.thrown # "none"
    THEN [s |-> [s EXCEPT !.log = @ \o pc.nested.log], thrown |-> pc.thrown,
          reason |-> pc.reason, req |-> pc.req]
    ELSE [s |-> attachSocket([s EXCEPT !.log = @ \o pc.nested.log], pc.open),
          thrown |-> "none", reason |-> "none", req |-> pc.req]

\* lines 499-503
proxyTunnel(s, in) == proxyTunnel_attach(s, proxyConnect(s, in))

-----------------------------------------------------------------------------
(* The session as a state machine *)

\* the session at the start of an operation
Cur ==
    [_host |-> _host, _port |-> _port, _proxyConfig |-> _proxyConfig,
     _keepAliveTimeout |-> _keepAliveTimeout, _lastRequest |-> _lastRequest,
     _reconnect |-> _reconnect, _mustReconnect |-> _mustReconnect,
     _expectResponseBody |-> _expectResponseBody,
     _responseReceived |-> _responseReceived,
     _pRequestStream |-> _pRequestStream, _pResponseStream |-> _pResponseStream,
     _keepAlive |-> _keepAlive, _pException |-> _pException,
     _connected |-> _connected, now |-> now, cycle |-> cycle,
     log |-> <<>>, wcalls |-> <<>>, raised |-> FALSE]

\* what sendRequest started from: the state of the connection and the
\* target and proxy header of the request object it was handed
Pre(req) ==
    [connected |-> _connected, mr |-> mustReconnect(Cur),
     uri |-> req.uri, proxyAuth |-> req.proxyAuth]

NoPre == [connected |-> FALSE, mr |-> FALSE, uri |-> <<>>, proxyAuth |-> FALSE]

\* the operation op ends in session s, throwing `thrown` or returning ret.
\* A response object is read again only after peekResponse has set
\* _responseReceived; otherwise receiveResponse clears it before use.
Commit(op, s, thrown, ret, req, resp, pre) ==
    /\ _host' = s._host
    /\ _port' = s._port
    /\ _proxyConfig' = s._proxyConfig
    /\ _keepAliveTimeout' = s._keepAliveTimeout
    /\ _lastRequest' = s._lastRequest
    /\ _reconnect' = s._reconnect
    /\ _mustReconnect' = s._mustReconnect
    /\ _expectResponseBody' = s._expectResponseBody
    /\ _responseReceived' = s._responseReceived
    /\ _pRequestStream' = s._pRequestStream
    /\ _pResponseStream' = s._pResponseStream
    /\ _keepAlive' = s._keepAlive
    /\ _pException' = s._pException
    /\ _connected' = s._connected
    /\ now' = s.now
    /\ cycle' = s.cycle
    /\ response' = IF s._responseReceived THEN resp ELSE FreshResponse
    /\ ev' = [op |-> op, thrown |-> thrown, ret |-> ret, raised |-> s.raised,
              log |-> s.log, wcalls |-> s.wcalls, pre |-> pre,
              req |-> req, resp |-> resp]

Setter(op, r) == Commit(op, r.s, r.thrown, "none", NoRequest, response, NoPre)

\* a session is constructed for a host and port (lines 105-115);
\* _lastRequest is the time of construction
InitMembers ==
    /\ _port = HTTP_PORT
    /\ _keepAliveTimeout = DEFAULT_KEEP_ALIVE_TIMEOUT
    /\ _reconnect = FALSE
    /\ _expectResponseBody = FALSE
    /\ _responseReceived = FALSE
    /\ _pRequestStream = NullStream
    /\ _pResponseStream = NullStream
    /\ _keepAlive = FALSE
    /\ _pException = "none"
    /\ _connected = (_host = "")
    /\ response = FreshResponse
    /\ cycle = NewCycle(FALSE, "")
    /\ ev = [op |-> "init", thrown |-> "none", ret |-> "none", raised |-> FALSE,
             log |-> <<>>, wcalls |-> <<>>, pre |-> NoPre,
             req |-> NoRequest, resp |-> FreshResponse]

\* HTTPClientSession(host, port) with the default (empty) global proxy
\* configuration
InitSession ==
    /\ _host = "a"
    /\ _proxyConfig = EmptyProxyConfig
    /\ InitMembers

Init ==
    /\ _lastRequest = 0
    /\ now = 0
    /\ _mustReconnect = FALSE
    /\ InitSession

SetHost == \E host \in Hosts : Setter("setHost", setHost(Cur, host))

SetPort == \E port \in Ports : Setter("setPort", setPort(Cur, port))

SetProxy ==
    \E host \in ProxyHosts, port \in ProxyPorts :
        Setter("setProxy", setProxy(Cur, host, port))

SetProxyHost ==
    \E host \in ProxyHosts : Setter("setProxyHost", setProxyHost(Cur, host))

SetProxyPort ==
    \E port \in ProxyPorts : Setter("setProxyPort", setProxyPort(Cur, port))

SetProxyCredentials ==
    \E username \in Usernames, password \in Passwords :
        Setter("setProxyCredentials", setProxyCredentials(Cur, username, password))

SetProxyUsername ==
    \E username \in Usernames :
        Setter("setProxyUsername", setProxyUsername(Cur, username))

SetProxyPassword ==
    \E password \in Passwords :
        Setter("setProxyPassword", setProxyPassword(Cur, password))

SetProxyConfig ==
    \E config \in ProxyConfigs :
        Setter("setProxyConfig", setProxyConfig(Cur, config))

SetKeepAliveTimeout ==
    \E timeout \in Timeouts :
        Setter("setKeepAliveTimeout", setKeepAliveTimeout(Cur, timeout))

\* keep-alive is chosen between exchanges, not while a request is being sent
SetKeepAlive ==
    /\ _pRequestStream.kind = "null"
    /\ \E keepAlive \in BOOLEAN :
           Setter("setKeepAlive", setKeepAlive(Cur, keepAlive))

\* the caller builds a request, and a new HTTPResponse for the exchange
SendRequest ==
    \E req \in FreshRequests, c \in BOOLEAN :
    \E h \in (IF c /\ req.chunked THEN WriteScripts ELSE {NoWrite}) :
        LET r == sendRequest(Cur, req, [c |-> c, h |-> h])
        IN  Commit("sendRequest", r.s, r.thrown, "none", r.req, FreshResponse,
                   Pre(req))

\* how often the target of a request object has been rewritten
Rewrites(req) == Cardinality({ i \in 1..Len(req.uri) : req.uri[i] = "http://" })

\* the caller passes the request object of the sendRequest before to
\* sendRequest once more
SendAgain ==
    /\ ev.op = "sendRequest"
    /\ Rewrites(ev.req) < MaxRewrites
    /\ \E c \in BOOLEAN :
       \E h \in (IF c /\ ev.req.chunked THEN WriteScripts ELSE {NoWrite}) :
           LET r == sendRequest(Cur, ev.req, [c |-> c, h |-> h])
           IN  Commit("sendRequest", r.s, r.thrown, "none", r.req, FreshResponse,
                      Pre(ev.req))

FlushRequest ==
    LET r == flushRequest(Cur)
    IN  Commit("flushRequest", r.s, r.thrown, "none", NoRequest, response, NoPre)

ReceiveResponse ==
    \E reads \in ReadScripts :
        LET r == receiveResponse(Cur, response, reads)
        IN  Commit("receiveResponse", r.s, r.thrown, "none", NoRequest, r.resp, NoPre)

PeekResponse ==
    \E read \in FinalReads \cup {ReadOutcome("none", ContinueHead)} :
        LET r == peekResponse(Cur, response, read)
        IN  Commit("peekResponse", r.s, r.thrown, r.ret, NoRequest, r.resp, NoPre)

Reset == Commit("reset", reset(Cur), "none", "none", NoRequest, response, NoPre)

\* proxyTunnel ends as r says
CommitTunnel(r) ==
    Commit("proxyTunnel", r.s, r.thrown, r.reason, r.req, response, Pre(NoRequest))

\* a subclass opens a tunnel through the proxy (lines 499-503)
ProxyTunnel ==
    \E c \in BOOLEAN, reads \in ProxyReadScripts :
    \E w \in (IF c THEN WriteScripts ELSE {NoWrite}) :
        CommitTunnel(proxyTunnel(Cur, [c |-> c, w |-> w, reads |-> reads]))

\* the caller writes body bytes into the stream sendRequest returned, and
\* the stream passes them to the session
Write ==
    /\ _pRequestStream.kind # "null"
    /\ \E buf \in Buffers, w \in WriteScripts :
           Commit("write", streamWrite(Cur, buf, w), "none", "none",
                  NoRequest, response, NoPre)

Tick ==
    /\ now < MaxTime
    /\ Commit("tick", [Cur EXCEPT !.now = now + 1], "none", "none",
              NoRequest, response, NoPre)

\* a subclass asks whether the connection must be replaced (lines 450-458)
MustReconnect ==
    Commit("mustReconnect", Cur, "none",
           IF mustReconnect(Cur) THEN "true" ELSE "false",
           NoRequest, response, NoPre)

\* the request/response life cycle of a session
Next ==
    \/ SetKeepAlive
    \/ SendRequest
    \/ FlushRequest
    \/ ReceiveResponse
    \/ PeekResponse
    \/ Reset
    \/ Write
    \/ Tick

Spec == Init /\ [][Next]_vars

\* configuring a session between its connections
NextConfig ==
    \/ SetHost
    \/ SetPort
    \/ SetProxy
    \/ SetProxyHost
    \/ SetProxyPort
    \/ SetProxyCredentials
    \/ SetProxyUsername
    \/ SetProxyPassword
    \/ SetProxyConfig
    \/ SendRequest
    \/ Reset

SpecConfig == Init /\ [][NextConfig]_vars

\* mustReconnect() over the timestamps, timeouts and flags a session can hold
InitClock ==
    /\ _lastRequest \in 0..MaxStamp
    /\ now \in 0..MaxStamp
    /\ _mustReconnect \in BOOLEAN
    /\ InitSession

NextClock ==
    \/ MustReconnect
    \/ SetKeepAliveTimeout
    \/ Tick

SpecClock == InitClock /\ [][NextClock]_vars

\* HTTPClientSession(host, port, proxyConfig)
InitProxy ==
    /\ _lastRequest = 0
    /\ now = 0
    /\ _mustReconnect = FALSE
    /\ _host \in {"a", "B"}
    /\ _proxyConfig \in ProxyConfigs
    /\ InitMembers

\* requests of a session constructed with a proxy configuration
NextProxy ==
    \/ SendRequest
    \/ SendAgain
    \/ Reset

SpecProxy == InitProxy /\ [][NextProxy]_vars

\* tunnels of a session constructed with a proxy configuration
NextTunnel ==
    \/ ProxyTunnel
    \/ Reset

SpecTunnel == InitProxy /\ [][NextTunnel]_vars

-----------------------------------------------------------------------------
(* Properties *)

Failed == ev.thrown # "none"

Indices(log, e) == { i \in 1..Len(log) : log[i].e = e }

\* the part of a log before its first transport write
BeforeFirstWrite(log) ==
    IF Indices(log, "write") = {} THEN log
    ELSE SubSeq(log, 1,
                (CHOOSE i \in Indices(log, "write") :
                    \A j \in Indices(log, "write") : i <= j) - 1)

\* C1: a sendRequest that starts on a connected session with keep-alive on
\* and mustReconnect() false issues no close and no connect before it writes
\* the request: the request goes out on the connection that was open.
C1_ReusesOpenConnection ==
    (ev.op = "sendRequest" /\ ev.pre.connected /\ _keepAlive /\ ~ev.pre.mr)
        => \A i \in 1..Len(BeforeFirstWrite(ev.log)) :
               ev.log[i].e \notin {"close", "connect"}

\* the first write of a keep-alive request failed with an I/O error
FirstWriteFailedIO(c) ==
    c.first /\ c.keepAlive /\ c.events[1].e = "write" /\ c.events[1].err = "io"

\* C2: when the first transport write of a keep-alive request fails with an
\* I/O error, write closes the transport, reconnects once and, when the
\* connection is there, writes the identical bytes once more; the outcome of
\* that second write is the outcome of the call, and nothing follows it.
C2_RetryOnceSameBytes ==
    \A k \in 1..Len(ev.wcalls) :
        LET c == ev.wcalls[k]
            e == c.events
        IN  FirstWriteFailedIO(c) =>
                /\ Len(e) \in {3, 4}
                /\ e[2].e = "close"
                /\ e[3].e = "connect"
                /\ Len(e) = 3 <=> e[3].err # "none"
                /\ Len(e) = 3 => c.thrown = e[3].err
                /\ Len(e) = 4 =>
                       /\ e[4].e = "write"
                       /\ e[4].buf = e[1].buf
                       /\ c.thrown = e[4].err

\* C2 witness: a first write failed, the session reconnected, and the retried
\* write failed too
C2_Witness ==
    \E k \in 1..Len(ev.wcalls) :
        /\ FirstWriteFailedIO(ev.wcalls[k])
        /\ Len(ev.wcalls[k].events) = 4
        /\ ev.wcalls[k].thrown = "io"

Reconnected(c) == Indices(c.events, "connect") # {} \/ Indices(c.events, "close") # {}

\* C3: only the first write call of a request cycle, and only of a keep-alive
\* request, closes and reconnects; every other failing write propagates.
C3_OnlyFirstWriteRetries ==
    \A k \in 1..Len(ev.wcalls) :
        (~ev.wcalls[k].first \/ ~ev.wcalls[k].keepAlive) => ~Reconnected(ev.wcalls[k])

\* C4: when sendRequest or receiveResponse ends by throwing, the transport is
\* not connected.
C4_ClosedAfterFailure ==
    (ev.op \in {"sendRequest", "receiveResponse"} /\ Failed) => ~_connected

RetrySucceeded(e) ==
    /\ e.op \in {"write", "sendRequest"}
    /\ \E k \in 1..Len(e.wcalls) :
           Reconnected(e.wcalls[k]) /\ e.wcalls[k].thrown = "none"

C6_ReconnectsWhenMust ==
    (ev.op = "sendRequest" /\ ev.pre.connected /\ ev.pre.mr /\ _host # "")
        => /\ Len(ev.log) >= 2
           /\ ev.log[1].e = "close"
           /\ ev.log[2].e = "connect"
           /\ ~_mustReconnect
           /\ Failed <=> (ev.log[2].err # "none" \/ constructionFails(ev.req))
           /\ \A i \in Indices(ev.log, "write") : i > 2 /\ ev.log[2].err = "none"

\* C6 witness: such a sendRequest has written a request head on the new
\* connection
C6_Witness ==
    /\ ev.op = "sendRequest" /\ ev.pre.connected /\ ev.pre.mr /\ _host # ""
    /\ \E i \in Indices(ev.log, "write") : ev.log[i].err = "none"
    /\ _connected

\* C7 (as stated): with the forced flag clear, mustReconnect() is true iff the
\* last request is older than now minus the timeout.
C7_TrueIffOlder ==
    (ev.op = "mustReconnect" /\ ~_mustReconnect)
        => (ev.ret = "true" <=> _lastRequest < now - _keepAliveTimeout)

\* C7: with the forced flag clear, mustReconnect() is true iff the last
\* request is at least the timeout old (at now minus the timeout, or older).
C7_TrueIffNotNewer ==
    (ev.op = "mustReconnect" /\ ~_mustReconnect)
        => (ev.ret = "true" <=> _lastRequest <= now - _keepAliveTimeout)

\* C7 witness: mustReconnect() answered for a request exactly the timeout old
C7_Witness ==
    /\ ev.op = "mustReconnect" /\ ~_mustReconnect
    /\ _lastRequest = now - _keepAliveTimeout
    /\ ev.ret = "true"

IdentitySetters ==
    {"setHost", "setPort", "setProxy", "setProxyHost", "setProxyPort",
     "setProxyCredentials", "setProxyUsername", "setProxyPassword",
     "setProxyConfig"}

\* C8: a setter of a connection-identity field called on a connected
\* session throws a state error and changes no such field.
C8_SettersRefusedWhenConnected ==
    [][(_connected /\ ev'.op \in IdentitySetters) =>
          /\ ev'.thrown = "state"
          /\ <<_host, _port, _proxyConfig>>' = <<_host, _port, _proxyConfig>>
      ]_vars

\* C9 (as stated): peekResponse sets _responseReceived iff the status read is
\* not 100 Continue, and returns true iff that status is a final one.
C9_ReturnsFinalSeen ==
    (ev.op = "peekResponse" /\ ~Failed)
        => /\ _responseReceived <=> ev.resp.status # HTTP_CONTINUE
           /\ ev.ret = "true" <=> ev.resp.status # HTTP_CONTINUE

\* C9: peekResponse sets _responseReceived iff the status read is not 100
\* Continue, and returns true iff that status is 100 Continue.
C9_ReturnsContinueSeen ==
    (ev.op = "peekResponse" /\ ~Failed)
        => /\ _responseReceived <=> ev.resp.status # HTTP_CONTINUE
           /\ ev.ret = "true" <=> ev.resp.status = HTTP_CONTINUE

\* C9 witness: peekResponse has read a final response head
C9_Witness ==
    /\ ev.op = "peekResponse" /\ ~Failed
    /\ ev.resp.status = HTTP_OK
    /\ _responseReceived /\ ev.ret = "false"

NoBody(resp) ==
    resp.status < 200 \/ resp.status = HTTP_NO_CONTENT
        \/ resp.status = HTTP_NOT_MODIFIED

\* C10: after a HEAD request, or for a response with a status below 200, 204
\* or 304, receiveResponse returns a fixed-length stream of length 0, whatever
\* the head says about length and chunking.
C10_NoBodyStream ==
    (ev.op = "receiveResponse" /\ ~Failed /\ (cycle.head \/ NoBody(ev.resp)))
        => _pResponseStream = [kind |-> "fixed", len |-> 0]

\* C10 witness: the response to a HEAD request announced 500 bytes
C10_Witness ==
    /\ ev.op = "receiveResponse" /\ ~Failed /\ cycle.head
    /\ ev.resp.status = HTTP_OK /\ ev.resp.contentLength = 500
    /\ _pResponseStream = [kind |-> "fixed", len |-> 0]

\* C11 (as stated): for every response that declares chunked transfer
\* encoding, receiveResponse returns the chunked input stream.
C11_ChunkedForAllResponses ==
    (ev.op = "receiveResponse" /\ ~Failed /\ ev.resp.chunked)
        => _pResponseStream.kind = "chunked"

\* C11: for every response that declares chunked transfer encoding and for
\* which a body is expected (the request was not HEAD, the status is 200 or
\* above and neither 204 nor 304), receiveResponse returns the chunked input
\* stream, whether or not the head also has a content length.
C11_ChunkedWhenBodyExpected ==
    (ev.op = "receiveResponse" /\ ~Failed /\ ev.resp.chunked
        /\ ~cycle.head /\ ~NoBody(ev.resp))
        => _pResponseStream = [kind |-> "chunked", len |-> 0]

\* C11 witness: a chunked response that also announced 500 bytes
C11_Witness ==
    /\ ev.op = "receiveResponse" /\ ~Failed /\ ~cycle.head
    /\ ev.resp.chunked /\ ev.resp.contentLength = 500
    /\ _pResponseStream.kind = "chunked"

HostMatchesPattern ==
    /\ _proxyConfig.nonProxyHosts # ""
    /\ Lower(_host) = Lower(_proxyConfig.nonProxyHosts)

\* C13 (as stated): on a session with a proxy host, a sendRequest that
\* returns has prefixed the target with "http://<host>:<port>" and added the
\* proxy authentication header if the host does not match the non-proxy
\* pattern, and has left target and proxy header alone if it does.
C13_RewritesAndAuthenticates ==
    (ev.op = "sendRequest" /\ ~Failed /\ _proxyConfig.host # "")
        => IF HostMatchesPattern
           THEN ev.req.uri = ev.pre.uri /\ ev.req.proxyAuth = ev.pre.proxyAuth
           ELSE /\ ev.req.uri = proxyRequestPrefix(Cur) \o ev.pre.uri
                /\ ev.req.proxyAuth

\* C13: on a session with a proxy host, a sendRequest that returns has
\* prefixed the target with "http://<host>:<port>" if the host does not match
\* the non-proxy pattern, and has then added the proxy authentication header
\* if a proxy username is configured; it has left target and proxy header
\* alone if the host matches.
C13_RewritesAndAuthenticatesWithUsername ==
    (ev.op = "sendRequest" /\ ~Failed /\ _proxyConfig.host # "")
        => IF HostMatchesPattern
           THEN ev.req.uri = ev.pre.uri /\ ev.req.proxyAuth = ev.pre.proxyAuth
           ELSE /\ ev.req.uri = proxyRequestPrefix(Cur) \o ev.pre.uri
                /\ ev.req.proxyAuth
                       = (ev.pre.proxyAuth \/ _proxyConfig.username # "")

\* C13 witness: host "B" matched the pattern "b" and the request went out
\* with its target as it was
C13_Witness ==
    /\ ev.op = "sendRequest" /\ ~Failed /\ _proxyConfig.host # ""
    /\ _host = "B" /\ _proxyConfig.nonProxyHosts = "b"
    /\ _proxyConfig.username # ""
    /\ ev.req.uri = <<"/path">> /\ ~ev.req.proxyAuth

\* the last event of a log that reads a head, as a set of at most one index
LastRead(log) ==
    { i \in Indices(log, "read") : \A j \in Indices(log, "read") : j <= i }

\* C14: when the proxy's answer to CONNECT has a status other than 200,
\* proxyTunnel throws an HTTPException that carries the reason phrase of the
\* answer.  Whenever proxyTunnel throws, no socket has been detached from the
\* nested session or attached to the calling session, whose transport is
\* connected or not as it was before the call.  When proxyTunnel returns, the
\* answer had status 200, and the nested session's socket was detached and
\* attached to the calling session.
C14_TunnelOnlyOn200 ==
    ev.op = "proxyTunnel" =>
        /\ \A i \in LastRead(ev.log) :
               (ev.log[i].err = "none" /\ SubSeq(ev.log[i].buf, 1, 3) # <<"2", "0", "0">>)
                   => (ev.thrown = "http" /\ ev.ret = ev.log[i].buf[4])
        /\ Failed =>
               /\ Indices(ev.log, "detach") = {}
               /\ Indices(ev.log, "attach") = {}
               /\ _connected = ev.pre.connected
        /\ ~Failed =>
               /\ \E i \in LastRead(ev.log) :
                      /\ ev.log[i].err = "none"
                      /\ SubSeq(ev.log[i].buf, 1, 3) = <<"2", "0", "0">>
                      /\ i = Len(ev.log) - 2
               /\ ev.log[Len(ev.log) - 1].e = "detach"
               /\ ev.log[Len(ev.log)].e = "attach"
               /\ _connected

\* C14 witness: the proxy answered 407 and the disconnected calling session
\* is as it was
C14_Witness ==
    /\ ev.op = "proxyTunnel" /\ ev.thrown = "http" /\ ev.ret = "Denied"
    /\ \E i \in LastRead(ev.log) : SubSeq(ev.log[i].buf, 1, 3) = <<"4", "0", "7">>
    /\ ~_connected /\ ~ev.pre.connected

\* C15: after reset() the transport is not connected, neither stream handle
\* is live and the pending-response flag is clear.
C15_ResetDiscardsFraming ==
    ev.op = "reset" =>
        /\ ~_connected
        /\ _pRequestStream = NullStream
        /\ _pResponseStream = NullStream
        /\ ~_responseReceived

\* C16: whenever sendRequest throws, at whatever step, the transport has
\* been closed as the last thing done to it, it is not connected, and the
\* output stream handle is null.
C16_FailedSendLeavesNothing ==
    (ev.op = "sendRequest" /\ Failed) =>
        /\ ev.log # <<>>
        /\ ev.log[Len(ev.log)].e = "close"
        /\ ~_connected
        /\ _pRequestStream = NullStream

\* C16 witness: the connection was there when the construction of the output
\* stream failed
C16_Witness ==
    /\ ev.op = "sendRequest" /\ ev.thrown = "syntax"
    /\ \E i \in Indices(ev.log, "connect") : ev.log[i].err = "none"
    /\ ~_connected /\ _pRequestStream = NullStream

ContinueLine == statusLine(ContinueHead)

\* the heads a step read are continue heads up to the last one, which is
\* the head the step returned
ReadUpToFinal(e) ==
    /\ LastRead(e.log) # {}
    /\ \A i \in Indices(e.log, "read") :
           /\ e.log[i].err = "none"
           /\ i \in LastRead(e.log) <=> e.log[i].buf # ContinueLine
           /\ i \in LastRead(e.log) => e.log[i].buf = statusLine(e.resp)

\* C17: a receiveResponse that follows a peekResponse which read a final
\* head reads no head from the transport and frames the body from the head
\* peekResponse left in the response; a receiveResponse that returns with the
\* pending-response flag clear before it has read continue heads up to
\* one final head, which is the one it frames; peekResponse reads at most
\* one head; sendRequest clears the flag.
C17_HeadReadOnce ==
    [][/\ (ev'.op = "receiveResponse" /\ _responseReceived) =>
              /\ Indices(ev'.log, "read") = {}
              /\ ev'.thrown = "none" =>
                     /\ ev'.resp = response
                     /\ _pResponseStream' = responseStream(_expectResponseBody, response)
       /\ (ev'.op = "receiveResponse" /\ ~_responseReceived /\ ev'.thrown = "none") =>
              /\ ReadUpToFinal(ev')
              /\ _pResponseStream' = responseStream(_expectResponseBody, ev'.resp)
       /\ ev'.op = "peekResponse" => Cardinality(Indices(ev'.log, "read")) <= 1
       /\ ev'.op = "sendRequest" => ~_responseReceived'
      ]_vars

\* C17 witness: receiveResponse has returned a stream for the final head
\* peekResponse had read, without reading
C17_Witness ==
    /\ ev.op = "receiveResponse" /\ ~Failed /\ _responseReceived
    /\ Indices(ev.log, "read") = {}
    /\ ev.resp = response
    /\ _pResponseStream.kind # "null"

\* C18: the output stream handle and the input stream handle are never
\* live at the same time.
C18_HandlesExclusive ==
    _pRequestStream = NullStream \/ _pResponseStream = NullStream

\* C18 witness: receiveResponse has dropped the output stream the request
\* was written through and created the input stream
C18_Witness ==
    /\ ev.op = "receiveResponse" /\ ~Failed /\ cycle.wroteOk
    /\ _pRequestStream = NullStream /\ _pResponseStream # NullStream

C20_RewriteIdempotent ==
    (ev.op = "sendRequest" /\ ~Failed /\ _proxyConfig.host # "" /\ ~HostMatchesPattern)
        => ev.req.uri = proxyRequestPrefix(Cur) \o <<"/path">>

====
